---- MODULE Spec2Model ----
(***************************************************************************)
(* Rental lifecycle of the bicycle rental management system: the SQLite    *)
(* store built by DatabaseManager, the rent flow of BikeRentSystem /       *)
(* RentalTransactionManager as driven by the /api/rent handler, and the    *)
(* return flow of BikeReturn.                                              *)
(*                                                                         *)
(* Dates are day numbers counted from 2024-02-20 (day 0), the earliest     *)
(* date of the sample data; a "%Y-%m-%d" string is the day it denotes.     *)
(* Money amounts are whole currency units.                                 *)
(***************************************************************************)
EXTENDS Integers, Sequences, FiniteSets, TLC

VARIABLES
    bicycles,             \* table bicycles: ID -> [STATUS, CONDITION]
    members,              \* table members: ID -> [STATUS, RENTAL_LIMIT]
    rental_transactions,  \* table rental_transactions, in TRANSACTION_ID order
    rental_fees,          \* table rental_fees: set of rows
    connection,           \* DatabaseManager.connection: 0 is None, t > 0 opened by thread t
    last,                 \* the answer of the finished operation, until its caller takes it
    pc,                   \* position of each concurrent /api/rent request
    req                   \* arguments, locals and answer of each concurrent request

vars == <<bicycles, members, rental_transactions, rental_fees, connection, last, pc, req>>

store == <<bicycles, members, rental_transactions, rental_fees>>

----------------------------------------------------------------------------
(* Bounds of the model *)

\* the inventory file lists the bicycles 1..MaxBike
MaxBike == 2

\* the day the clock shows (datetime.now()), as a day number
Today == 30

----------------------------------------------------------------------------
(* Program constants *)

\* self.connection = None
None == 0

\* a NULL RETURN_DATE
NULL == -1

\* bikes are rented for a week
rental_period == 7

BikeIds == 1..MaxBike

BikeStatuses == {"Available", "Rented", "Under Maintenance"}

\* CHECK(CONDITION IN ('New', 'Good', 'Damaged'))
BikeConditions == {"New", "Good", "Damaged"}

MemberStatuses == {"Active", "Inactive", "Suspended"}

----------------------------------------------------------------------------
(* Python values that cross a type boundary: ints, strings, None *)

PyInt(i) == [t |-> "int", v |-> i]

\* a "%Y-%m-%d" string, by the day it denotes
PyStr(i) == [t |-> "str", v |-> i]

PyNone == [t |-> "none", v |-> 0]

\* a string that is not a number, as typed into a form
NotANumber == [t |-> "text", v |-> 0]

\* int(x) that takes a text that is not a number for 0
int_text_as_zero(x) ==
    CASE x.t = "int" -> [ok |-> TRUE, v |-> x.v, exc |-> ""]
      [] x.t = "text" -> [ok |-> TRUE, v |-> 0, exc |-> ""]
      [] x.t = "str" -> [ok |-> FALSE, v |-> 0, exc |-> "ValueError"]
      [] OTHER -> [ok |-> FALSE, v |-> 0, exc |-> "TypeError"]

\* int(x): the number for an int (or a string of digits, not told apart from
\* it here), ValueError for any other text, TypeError for None
int(x) ==
    CASE x.t = "int" -> [ok |-> TRUE, v |-> x.v, exc |-> ""]
      [] x.t = "str" -> [ok |-> FALSE, v |-> 0, exc |-> "ValueError"]
      [] x.t = "text" -> [ok |-> FALSE, v |-> 0, exc |-> "ValueError"]
      [] OTHER -> [ok |-> FALSE, v |-> 0, exc |-> "TypeError"]

----------------------------------------------------------------------------
(* DatabaseManager: connection handling *)

\* connect(): opens a connection owned by the calling thread when there is none
connect(conn, thread) == IF conn = None THEN thread ELSE conn

\* close(): closes and clears the connection
close(conn) == None

----------------------------------------------------------------------------
(* DatabaseManager: sample data written by every construction *)

sample_members ==
    [i \in 1..5 |->
        [STATUS |-> "Active", RENTAL_LIMIT |-> IF i = 3 THEN 5 ELSE 3]]

Tx(b, m, rd, ret) ==
    [BICYCLE_ID |-> b, MEMBER_ID |-> m, RENTAL_DATE |-> rd, RETURN_DATE |-> ret]

sample_transactions ==
    << Tx(1, 1, 10, NULL),
       Tx(2, 2, 14, 19),
       Tx(3, 3, 17, NULL),
       Tx(4, 1, 0, 7),
       Tx(5, 4, 21, NULL) >>

Fee(t, late, damage) ==
    [TRANSACTION_ID |-> t, LATE_FEE |-> late, DAMAGE_FEE |-> damage]

sample_fees == { Fee(2, 5, 0), Fee(4, 0, 15) }

----------------------------------------------------------------------------
(* Queries *)

Range(s) == { s[i] : i \in DOMAIN s }

\* rows of rental_transactions with RETURN_DATE IS NULL
IsOpen(tx) == tx.RETURN_DATE = NULL

OpenIds(txs) == { i \in DOMAIN txs : IsOpen(txs[i]) }

OpenIdsOfBicycle(txs, b) == { i \in OpenIds(txs) : txs[i].BICYCLE_ID = b }

OpenIdsOfMember(txs, m) == { i \in OpenIds(txs) : txs[i].MEMBER_ID = m }

\* get_member_info without the STATUS = 'Active' condition
get_member_info_any_status(mems, conn, thread, member_id) ==
    LET c1 == connect(conn, thread)
    IN  [ret |-> IF member_id \in DOMAIN mems THEN <<mems[member_id]>> ELSE <<>>,
         connection |-> close(c1)]

\* get_member_info: SELECT ... FROM members WHERE ID = ? AND STATUS = 'Active';
\* the finally clause closes the shared connection
get_member_info(mems, conn, thread, member_id) ==
    LET c1 == connect(conn, thread)
        found == member_id \in DOMAIN mems /\ mems[member_id].STATUS = "Active"
    IN  [ret |-> IF found THEN <<mems[member_id]>> ELSE <<>>,
         connection |-> close(c1)]

\* get_active_rentals_for_member: SELECT COUNT(*) ... WHERE MEMBER_ID = ? AND
\* RETURN_DATE IS NULL
get_active_rentals_for_member(txs, conn, thread, member_id) ==
    LET c1 == connect(conn, thread)
    IN  [ret |-> Cardinality(OpenIdsOfMember(txs, member_id)),
         connection |-> close(c1)]

\* get_bicycle_by_id: SELECT * FROM bicycles WHERE ID = ?
get_bicycle_by_id(bikes, conn, thread, bicycle_id) ==
    LET c1 == connect(conn, thread)
    IN  [ret |-> IF bicycle_id \in DOMAIN bikes THEN <<bikes[bicycle_id]>> ELSE <<>>,
         connection |-> close(c1)]

----------------------------------------------------------------------------
(* Answers given to the caller *)

NoAnswer ==
    [op |-> "none", member_id |-> PyNone, bicycle_id |-> PyNone,
     success |-> FALSE, text |-> "", limit |-> 0, current |-> 0, status |-> "",
     transaction_id |-> 0, confirm |-> FALSE, late_fee |-> 0, damage_fee |-> 0,
     condition |-> "", damaged |-> FALSE, amounts |-> <<>>]

Answer(op, raw_member, raw_bicycle, success, text) ==
    [NoAnswer EXCEPT !.op = op, !.member_id = raw_member, !.bicycle_id = raw_bicycle,
                     !.success = success, !.text = text]

----------------------------------------------------------------------------
(* BikeRentSystem and RentalTransactionManager *)

\* str.lower() on the values the STATUS column admits
lower(status) ==
    CASE status = "Available" -> "available"
      [] status = "Rented" -> "rented"
      [] status = "Under Maintenance" -> "under maintenance"
      [] OTHER -> status

\* validate_member that compares the open rentals with > in place of >=
validate_member_over_limit_only(mems, txs, conn, thread, member_id) ==
    LET info == get_member_info(mems, conn, thread, member_id)
        count == get_active_rentals_for_member(txs, info.connection, thread, member_id)
    IN  IF info.ret = <<>>
        THEN [ok |-> FALSE, text |-> "Invalid or inactive membership.",
              limit |-> 0, current |-> 0, connection |-> info.connection]
        ELSE IF count.ret > info.ret[1].RENTAL_LIMIT
        THEN [ok |-> FALSE, text |-> "Rental limit exceeded.",
              limit |-> info.ret[1].RENTAL_LIMIT, current |-> count.ret,
              connection |-> count.connection]
        ELSE [ok |-> TRUE, text |-> "validated and eligible to rent.",
              limit |-> info.ret[1].RENTAL_LIMIT, current |-> count.ret,
              connection |-> count.connection]

\* validate_member: (False, reason) for a missing or not Active member and for
\* a member at or over the rental limit, (True, ...) otherwise
validate_member(mems, txs, conn, thread, member_id) ==
    LET info == get_member_info(mems, conn, thread, member_id)
        count == get_active_rentals_for_member(txs, info.connection, thread, member_id)
    IN  IF info.ret = <<>>
        THEN [ok |-> FALSE, text |-> "Invalid or inactive membership.",
              limit |-> 0, current |-> 0, connection |-> info.connection]
        ELSE IF count.ret >= info.ret[1].RENTAL_LIMIT
        THEN [ok |-> FALSE, text |-> "Rental limit exceeded.",
              limit |-> info.ret[1].RENTAL_LIMIT, current |-> count.ret,
              connection |-> count.connection]
        ELSE [ok |-> TRUE, text |-> "validated and eligible to rent.",
              limit |-> info.ret[1].RENTAL_LIMIT, current |-> count.ret,
              connection |-> count.connection]

\* validate_bicycle that refuses only a bicycle whose status is Rented
validate_bicycle_rented_only(bikes, conn, thread, bicycle_id) ==
    LET bicycle == get_bicycle_by_id(bikes, conn, thread, bicycle_id)
    IN  IF bicycle.ret = <<>>
        THEN [ok |-> FALSE, text |-> "Bicycle ID not found.", status |-> "",
              connection |-> bicycle.connection]
        ELSE IF lower(bicycle.ret[1].STATUS) = "rented"
        THEN [ok |-> FALSE, text |-> "Bicycle is not available for rent.",
              status |-> bicycle.ret[1].STATUS, connection |-> bicycle.connection]
        ELSE [ok |-> TRUE, text |-> "Bicycle is available for rent.",
              status |-> bicycle.ret[1].STATUS, connection |-> bicycle.connection]

\* validate_bicycle: (False, reason) for an unknown id and for a status other
\* than Available, (True, ...) otherwise
validate_bicycle(bikes, conn, thread, bicycle_id) ==
    LET bicycle == get_bicycle_by_id(bikes, conn, thread, bicycle_id)
    IN  IF bicycle.ret = <<>>
        THEN [ok |-> FALSE, text |-> "Bicycle ID not found.", status |-> "",
              connection |-> bicycle.connection]
        ELSE IF lower(bicycle.ret[1].STATUS) # "available"
        THEN [ok |-> FALSE, text |-> "Bicycle is not available for rent.",
              status |-> bicycle.ret[1].STATUS, connection |-> bicycle.connection]
        ELSE [ok |-> TRUE, text |-> "Bicycle is available for rent.",
              status |-> bicycle.ret[1].STATUS, connection |-> bicycle.connection]

\* calculate_expected_return_date: now + rental_period days
calculate_expected_return_date(now) == now + rental_period

\* log_rental_transaction that writes its row, with a NULL RETURN_DATE
log_rental_transaction_open_row(mems, txs, conn, thread, bicycle_id, member_id, rental_date, expected_return_date) ==
    [rental_transactions |-> Append(txs, Tx(bicycle_id, member_id, rental_date, NULL)),
     connection |-> close(connect(conn, thread))]

\* log_rental_transaction: connect(), look the member up for the log line
\* (get_member_info closes the shared connection in its finally clause), then
\* "with self.db_manager.connection: INSERT ...": on a connection that is None
\* the with statement raises, the except clause logs the error and the method
\* returns normally without a row written.  The INSERT binds
\* expected_return_date to the RETURN_DATE column.
log_rental_transaction(mems, txs, conn, thread, bicycle_id, member_id, rental_date, expected_return_date) ==
    LET c1 == connect(conn, thread)
        info == get_member_info(mems, c1, thread, member_id)
        c2 == info.connection
    IN  [rental_transactions |->
            IF c2 = None
            THEN txs
            ELSE Append(txs, Tx(bicycle_id, member_id, rental_date, expected_return_date)),
         connection |-> close(c2)]

\* rent_bicycle that writes the transaction row before it validates the bicycle
rent_bicycle_write_first(bikes, mems, txs, conn, thread, raw_member, raw_bicycle, now) ==
    LET m == int(raw_member)
        b == int(raw_bicycle)
        vm == validate_member(mems, txs, conn, thread, m.v)
        vb == validate_bicycle(bikes, vm.connection, thread, b.v)
        written == Append(txs, Tx(b.v, m.v, now, calculate_expected_return_date(now)))
        reply(success, text) == Answer("rent", raw_member, raw_bicycle, success, text)
    IN  IF ~(m.ok /\ b.ok)
        THEN [rental_transactions |-> txs, connection |-> conn,
              answer |-> reply(FALSE, "Invalid input. Please enter numeric values for Member ID and Bicycle ID.")]
        ELSE IF ~vm.ok
        THEN [rental_transactions |-> txs, connection |-> vm.connection,
              answer |-> [reply(FALSE, vm.text) EXCEPT !.limit = vm.limit,
                                                       !.current = vm.current]]
        ELSE IF ~vb.ok
        THEN [rental_transactions |-> written, connection |-> vb.connection,
              answer |-> [reply(FALSE, vb.text) EXCEPT !.status = vb.status]]
        ELSE [rental_transactions |-> written, connection |-> vb.connection,
              answer |-> reply(TRUE, "Rental confirmed")]

\* /api/rent (app.py rent_bicycle; BikeRentSystem.rent_bicycle is the same flow
\* on the command line): parse the ids, validate the member, validate the
\* bicycle, log the transaction, answer "Rental confirmed"
rent_bicycle(bikes, mems, txs, conn, thread, raw_member, raw_bicycle, now) ==
    LET m == int(raw_member)
        b == int(raw_bicycle)
        bad == IF ~m.ok THEN m.exc ELSE b.exc
        vm == validate_member(mems, txs, conn, thread, m.v)
        vb == validate_bicycle(bikes, vm.connection, thread, b.v)
        logged == log_rental_transaction(mems, txs, vb.connection, thread, b.v, m.v,
                                         now, calculate_expected_return_date(now))
        reply(success, text) == Answer("rent", raw_member, raw_bicycle, success, text)
    IN  IF ~(m.ok /\ b.ok)
        THEN [rental_transactions |-> txs, connection |-> conn,
              answer |-> reply(FALSE,
                               IF bad = "ValueError"
                               THEN "Invalid input. Please enter numeric values for Member ID and Bicycle ID."
                               ELSE "An error occurred while processing the rental")]
        ELSE IF ~vm.ok
        THEN [rental_transactions |-> txs, connection |-> vm.connection,
              answer |-> [reply(FALSE, vm.text) EXCEPT !.limit = vm.limit,
                                                       !.current = vm.current]]
        ELSE IF ~vb.ok
        THEN [rental_transactions |-> txs, connection |-> vb.connection,
              answer |-> [reply(FALSE, vb.text) EXCEPT !.status = vb.status]]
        ELSE [rental_transactions |-> logged.rental_transactions,
              connection |-> logged.connection,
              answer |-> reply(TRUE, "Rental confirmed")]

----------------------------------------------------------------------------
(* BikeReturn *)

\* what the operator types at the prompts of return_bike: the answer to
\* "Confirm return", to "Is the bike damaged?", the amounts typed at "Enter
\* damage fee amount" (asked again until one is >= 0) and the condition that
\* is finally accepted at "Enter updated condition"
ReturnConditions == {"New", "Good", "Fair", "Damaged"}

DamageAmounts == { <<0>>, <<15>>, <<-5, 15>> }

\* a prompt that is not reached is not answered: no amounts without damage, no
\* damage and condition without the confirmation
Prompts ==
    { [confirm |-> FALSE, damaged |-> FALSE, amounts |-> <<>>, condition |-> ""] }
    \cup [confirm : {TRUE}, damaged : {FALSE}, amounts : {<<>>}, condition : ReturnConditions]
    \cup [confirm : {TRUE}, damaged : {TRUE}, amounts : DamageAmounts, condition : ReturnConditions]

\* validate_ids: int() of both ids; a ValueError is caught and gives False, any
\* other exception leaves the method
validate_ids(raw_bicycle, raw_member) ==
    LET b == int(raw_bicycle)
        m == int(raw_member)
    IN  IF ~b.ok THEN [ok |-> FALSE, raised |-> b.exc # "ValueError"]
        ELSE IF ~m.ok THEN [ok |-> FALSE, raised |-> m.exc # "ValueError"]
        ELSE [ok |-> TRUE, raised |-> FALSE]

Min(S) == CHOOSE x \in S : \A y \in S : x <= y

\* get_active_rental without the RETURN_DATE IS NULL condition
get_active_rental_any_date(txs, bicycle_id, member_id) ==
    LET ids == { i \in DOMAIN txs :
                    txs[i].BICYCLE_ID = bicycle_id /\ txs[i].MEMBER_ID = member_id }
        i == Min(ids)
    IN  IF ids = {}
        THEN <<>>
        ELSE << PyInt(i), PyInt(txs[i].BICYCLE_ID), PyInt(txs[i].MEMBER_ID),
                PyStr(txs[i].RENTAL_DATE), PyNone >>

\* get_active_rental: SELECT * FROM rental_transactions WHERE BICYCLE_ID = ? AND
\* MEMBER_ID = ? AND RETURN_DATE IS NULL, fetchone(); the row comes back as the
\* list [TRANSACTION_ID, BICYCLE_ID, MEMBER_ID, RENTAL_DATE, RETURN_DATE]
get_active_rental(txs, bicycle_id, member_id) ==
    LET ids == { i \in OpenIdsOfBicycle(txs, bicycle_id) : txs[i].MEMBER_ID = member_id }
        i == Min(ids)
    IN  IF ids = {}
        THEN <<>>
        ELSE << PyInt(i), PyInt(txs[i].BICYCLE_ID), PyInt(txs[i].MEMBER_ID),
                PyStr(txs[i].RENTAL_DATE), PyNone >>

\* transaction[k] of the Python list (indices from 0)
item(row, k) == row[k + 1]

\* update_rental_transaction that records no return date
update_rental_transaction_no_date(txs, transaction, return_date) == txs

\* update_rental_transaction with WHERE MEMBER_ID = ? in place of WHERE
\* TRANSACTION_ID = ?
update_rental_transaction_of_member(txs, transaction, return_date) ==
    [i \in DOMAIN txs |->
        IF txs[i].MEMBER_ID = item(transaction, 2).v
        THEN [txs[i] EXCEPT !.RETURN_DATE = return_date]
        ELSE txs[i]]

\* update_rental_transaction: UPDATE rental_transactions SET RETURN_DATE = ?
\* WHERE TRANSACTION_ID = ?
update_rental_transaction(txs, transaction, return_date) ==
    [txs EXCEPT ![item(transaction, 0).v].RETURN_DATE = return_date]

\* calculate_allowed_days: the default of 7 days for every member
calculate_allowed_days(member_id) == 7

Max(a, b) == IF a >= b THEN a ELSE b

\* calculate_late_fee: a string is parsed as a date and charged 10 per day over
\* the allowed days; for any other value "datetime.now() - rental_date" raises
\* and the except clause returns 0
calculate_late_fee(rental_date, member_id, now) ==
    IF rental_date.t = "str"
    THEN Max(0, ((now - rental_date.v) - calculate_allowed_days(member_id)) * 10)
    ELSE 0

RECURSIVE FirstAccepted(_)
FirstAccepted(amounts) ==
    IF amounts = <<>> THEN 0
    ELSE IF Head(amounts) >= 0 THEN Head(amounts)
    ELSE FirstAccepted(Tail(amounts))

\* assess_damage that takes the first amount typed, whatever its sign
assess_damage_first_typed(damaged, amounts) ==
    IF damaged /\ amounts # <<>> THEN Head(amounts) ELSE 0

\* assess_damage: 0 unless the answer is yes; then the first amount typed
\* that is >= 0
assess_damage(damaged, amounts) ==
    IF damaged THEN FirstAccepted(amounts) ELSE 0

\* store_fees with a plain INSERT into a table without the primary key
store_fees_insert(fees, transaction_id, late_fee, damage_fee) ==
    fees \cup { Fee(transaction_id, late_fee, damage_fee) }

\* store_fees: INSERT OR REPLACE INTO rental_fees (TRANSACTION_ID is the
\* primary key)
store_fees(fees, transaction_id, late_fee, damage_fee) ==
    { f \in fees : f.TRANSACTION_ID # transaction_id }
        \cup { Fee(transaction_id, late_fee, damage_fee) }

\* update_bike_status whose UPDATE has no WHERE clause
update_bike_status_all(bikes, bicycle_id, new_condition) ==
    IF new_condition \notin BikeConditions /\ bikes # <<>>
    THEN [raised |-> TRUE, bicycles |-> bikes]
    ELSE [raised |-> FALSE,
          bicycles |-> [b \in DOMAIN bikes |->
                            [STATUS |-> "Available", CONDITION |-> new_condition]]]

\* update_bike_status: UPDATE bicycles SET STATUS = 'Available', CONDITION = ?
\* WHERE ID = ?; the CHECK constraint of the CONDITION column makes the UPDATE
\* of an existing row raise for a condition the schema does not list
update_bike_status(bikes, bicycle_id, new_condition) ==
    IF bicycle_id \notin DOMAIN bikes
    THEN [raised |-> FALSE, bicycles |-> bikes]
    ELSE IF new_condition \notin BikeConditions
    THEN [raised |-> TRUE, bicycles |-> bikes]
    ELSE [raised |-> FALSE,
          bicycles |-> [bikes EXCEPT ![bicycle_id] =
                            [STATUS |-> "Available", CONDITION |-> new_condition]]]

\* return_bike that records and commits the return date before it asks for the
\* confirmation
return_bike_cancel_after_update(bikes, txs, fees, conn, thread, raw_bicycle, raw_member, prompts, now) ==
    LET ids == validate_ids(raw_bicycle, raw_member)
        bicycle_id == int(raw_bicycle).v
        member_id == int(raw_member).v
        transaction == get_active_rental(txs, bicycle_id, member_id)
        txs1 == update_rental_transaction(txs, transaction, now)
        late_fee == calculate_late_fee(item(transaction, 2), member_id, now)
        damage_fee == assess_damage(prompts.damaged, prompts.amounts)
        fees1 == store_fees(fees, item(transaction, 0).v, late_fee, damage_fee)
        upd == update_bike_status(bikes, bicycle_id, prompts.condition)
        reply(success, text) == Answer("return", raw_member, raw_bicycle, success, text)
        found(success, text) ==
            [reply(success, text) EXCEPT !.transaction_id = item(transaction, 0).v,
                                         !.confirm = prompts.confirm]
        asked(success, text) ==
            [found(success, text) EXCEPT !.late_fee = late_fee,
                                         !.damage_fee = damage_fee,
                                         !.condition = prompts.condition,
                                         !.damaged = prompts.damaged,
                                         !.amounts = prompts.amounts]
        same(answer) ==
            [bicycles |-> bikes, rental_transactions |-> txs, rental_fees |-> fees,
             connection |-> close(connect(conn, thread)), answer |-> answer]
    IN  IF ids.raised
        THEN same(reply(FALSE, "Error during return"))
        ELSE IF ~ids.ok
        THEN same(reply(FALSE, "Invalid bicycle ID or member ID"))
        ELSE IF transaction = <<>>
        THEN same(reply(FALSE, "No active rental found"))
        ELSE IF ~prompts.confirm
        THEN [same(found(FALSE, "Return canceled by user")) EXCEPT
                  !.rental_transactions = txs1]
        ELSE IF upd.raised
        THEN same(asked(FALSE, "Error during return"))
        ELSE [bicycles |-> upd.bicycles, rental_transactions |-> txs1,
              rental_fees |-> fees1, connection |-> close(connect(conn, thread)),
              answer |-> asked(TRUE, "Bicycle returned successfully")]

\* return_bike that commits what was written before the exception
return_bike_no_rollback(bikes, txs, fees, conn, thread, raw_bicycle, raw_member, prompts, now) ==
    LET ids == validate_ids(raw_bicycle, raw_member)
        bicycle_id == int(raw_bicycle).v
        member_id == int(raw_member).v
        transaction == get_active_rental(txs, bicycle_id, member_id)
        txs1 == update_rental_transaction(txs, transaction, now)
        late_fee == calculate_late_fee(item(transaction, 2), member_id, now)
        damage_fee == assess_damage(prompts.damaged, prompts.amounts)
        fees1 == store_fees(fees, item(transaction, 0).v, late_fee, damage_fee)
        upd == update_bike_status(bikes, bicycle_id, prompts.condition)
        reply(success, text) == Answer("return", raw_member, raw_bicycle, success, text)
        found(success, text) ==
            [reply(success, text) EXCEPT !.transaction_id = item(transaction, 0).v,
                                         !.confirm = prompts.confirm]
        asked(success, text) ==
            [found(success, text) EXCEPT !.late_fee = late_fee,
                                         !.damage_fee = damage_fee,
                                         !.condition = prompts.condition,
                                         !.damaged = prompts.damaged,
                                         !.amounts = prompts.amounts]
        same(answer) ==
            [bicycles |-> bikes, rental_transactions |-> txs, rental_fees |-> fees,
             connection |-> close(connect(conn, thread)), answer |-> answer]
    IN  IF ids.raised
        THEN same(reply(FALSE, "Error during return"))
        ELSE IF ~ids.ok
        THEN same(reply(FALSE, "Invalid bicycle ID or member ID"))
        ELSE IF transaction = <<>>
        THEN same(reply(FALSE, "No active rental found"))
        ELSE IF ~prompts.confirm
        THEN same(found(FALSE, "Return canceled by user"))
        ELSE IF upd.raised
        THEN [same(asked(FALSE, "Error during return")) EXCEPT
                  !.rental_transactions = txs1, !.rental_fees = fees1]
        ELSE [bicycles |-> upd.bicycles, rental_transactions |-> txs1,
              rental_fees |-> fees1, connection |-> close(connect(conn, thread)),
              answer |-> asked(TRUE, "Bicycle returned successfully")]

\* return_bike: the writes are made on the open connection and become part of
\* the store at commit(); an exception rolls all of them back
return_bike(bikes, txs, fees, conn, thread, raw_bicycle, raw_member, prompts, now) ==
    LET ids == validate_ids(raw_bicycle, raw_member)
        bicycle_id == int(raw_bicycle).v
        member_id == int(raw_member).v
        transaction == get_active_rental(txs, bicycle_id, member_id)
        txs1 == update_rental_transaction(txs, transaction, now)
        late_fee == calculate_late_fee(item(transaction, 2), member_id, now)
        damage_fee == assess_damage(prompts.damaged, prompts.amounts)
        fees1 == store_fees(fees, item(transaction, 0).v, late_fee, damage_fee)
        upd == update_bike_status(bikes, bicycle_id, prompts.condition)
        reply(success, text) == Answer("return", raw_member, raw_bicycle, success, text)
        found(success, text) ==
            [reply(success, text) EXCEPT !.transaction_id = item(transaction, 0).v,
                                         !.confirm = prompts.confirm]
        asked(success, text) ==
            [found(success, text) EXCEPT !.late_fee = late_fee,
                                         !.damage_fee = damage_fee,
                                         !.condition = prompts.condition,
                                         !.damaged = prompts.damaged,
                                         !.amounts = prompts.amounts]
        same(answer) ==
            [bicycles |-> bikes, rental_transactions |-> txs, rental_fees |-> fees,
             connection |-> close(connect(conn, thread)), answer |-> answer]
    IN  IF ids.raised
        THEN same(reply(FALSE, "Error during return"))
        ELSE IF ~ids.ok
        THEN same(reply(FALSE, "Invalid bicycle ID or member ID"))
        ELSE IF transaction = <<>>
        THEN same(reply(FALSE, "No active rental found"))
        ELSE IF ~prompts.confirm
        THEN same(found(FALSE, "Return canceled by user"))
        ELSE IF upd.raised
        THEN same(asked(FALSE, "Error during return"))
        ELSE [bicycles |-> upd.bicycles, rental_transactions |-> txs1,
              rental_fees |-> fees1, connection |-> close(connect(conn, thread)),
              answer |-> asked(TRUE, "Bicycle returned successfully")]

----------------------------------------------------------------------------
(* Inputs *)

\* a member id no sample member has
UnknownMember == Len(sample_members) + 1

RequestMemberIds == DOMAIN sample_members \cup {UnknownMember}

\* the inventory, the bicycles the sample transactions name, and one id more
RequestBikeIds ==
    BikeIds \cup { sample_transactions[i].BICYCLE_ID : i \in DOMAIN sample_transactions }
            \cup { MaxBike + 1 }

RawMembers == { PyInt(i) : i \in RequestMemberIds } \cup { NotANumber, PyNone }

RawBicycles == { PyInt(i) : i \in RequestBikeIds } \cup { NotANumber, PyNone }

\* the requests that run concurrently
Threads == {1, 2}

\* no request in a thread
NoArrival == [available |-> FALSE, eligible |-> FALSE, overlaps |-> FALSE]

NoRequest == [answer |-> NoAnswer, arrival |-> NoArrival]

----------------------------------------------------------------------------
(* The store after DatabaseManager(): create_tables keeps the bicycles table  *)
(* (CREATE TABLE IF NOT EXISTS; its rows come from the inventory file, each   *)
(* with a status the CHECK constraint admits), drops and recreates members,   *)
(* rental_transactions and rental_fees, and populate_sample_data fills them.  *)

Inventories == [BikeIds -> [STATUS : BikeStatuses, CONDITION : {"Good"}]]

Init ==
    /\ bicycles \in Inventories
    /\ members = sample_members
    /\ rental_transactions = sample_transactions
    /\ rental_fees = sample_fees
    /\ connection = None
    /\ last = NoAnswer
    /\ pc = [t \in Threads |-> "idle"]
    /\ req = [t \in Threads |-> NoRequest]

----------------------------------------------------------------------------
(* Operations, each run to completion: the next one starts once the caller  *)
(* has taken the answer of the one before                                   *)

\* initiate_rental: one /api/rent request
Rent(raw_member, raw_bicycle) ==
    LET r == rent_bicycle(bicycles, members, rental_transactions, connection, 1,
                          raw_member, raw_bicycle, Today)
    IN  /\ last = NoAnswer
        /\ rental_transactions' = r.rental_transactions
        /\ connection' = r.connection
        /\ last' = r.answer
        /\ UNCHANGED <<bicycles, members, rental_fees, pc, req>>

\* complete_return: one run of BikeReturn.return_bike
Return(raw_bicycle, raw_member, prompts) ==
    LET r == return_bike(bicycles, rental_transactions, rental_fees, connection, 1,
                         raw_bicycle, raw_member, prompts, Today)
    IN  /\ last = NoAnswer
        /\ bicycles' = r.bicycles
        /\ rental_transactions' = r.rental_transactions
        /\ rental_fees' = r.rental_fees
        /\ connection' = r.connection
        /\ last' = r.answer
        /\ UNCHANGED <<members, pc, req>>

\* the caller takes the answer
Deliver ==
    /\ last # NoAnswer
    /\ last' = NoAnswer
    /\ UNCHANGED <<bicycles, members, rental_transactions, rental_fees, connection, pc, req>>

RentAny == \E m \in RawMembers, b \in RawBicycles : Rent(m, b)

\* the confirmation is asked for only once an active rental is found
PromptsFor(raw_bicycle, raw_member) ==
    IF /\ validate_ids(raw_bicycle, raw_member).ok
       /\ get_active_rental(rental_transactions, int(raw_bicycle).v, int(raw_member).v) # <<>>
    THEN Prompts
    ELSE { p \in Prompts : ~p.confirm }

ReturnAny ==
    \E b \in RawBicycles, m \in RawMembers :
        \E p \in PromptsFor(b, m) : Return(b, m, p)

Next == RentAny \/ ReturnAny \/ Deliver

Spec == Init /\ [][Next]_vars

\* the number of open transactions of bicycle b, of member m
OpenCountOfBicycle(txs, b) ==
    Cardinality({ i \in DOMAIN txs : txs[i].BICYCLE_ID = b /\ txs[i].RETURN_DATE = NULL })

OpenCountOfMember(txs, m) ==
    Cardinality({ i \in DOMAIN txs : txs[i].MEMBER_ID = m /\ txs[i].RETURN_DATE = NULL })

\* member m exists, is Active and is under its rental limit
Eligible(mems, txs, m) ==
    /\ m \in DOMAIN mems
    /\ mems[m].STATUS = "Active"
    /\ OpenCountOfMember(txs, m) < mems[m].RENTAL_LIMIT

----------------------------------------------------------------------------
(* Administration of members.  No code of the repository changes a member's  *)
(* status or rental limit; the specification leaves both to an               *)
(* administrative action outside the core, which is all this action is.      *)

AdminMembers == {1, 2}

AdminLimits == {0, 1, 3}

AdminUpdateMember(m, status, limit) ==
    /\ last = NoAnswer
    /\ members' = [members EXCEPT ![m] = [STATUS |-> status, RENTAL_LIMIT |-> limit]]
    /\ UNCHANGED <<bicycles, rental_transactions, rental_fees, connection, last, pc, req>>

AdminAny ==
    \E m \in AdminMembers, status \in MemberStatuses, limit \in AdminLimits :
        AdminUpdateMember(m, status, limit)

NextAdmin == RentAny \/ Deliver \/ AdminAny

\* rentals against a members table that administration changes
SpecAdmin == Init /\ [][NextAdmin]_vars

----------------------------------------------------------------------------
(* Concurrent /api/rent requests: the handler of each request runs in its    *)
(* own thread on the shared rental_system; a thread may be preempted between *)
(* the calls the handler makes (validate_member, validate_bicycle,           *)
(* log_rental_transaction).  req[t].answer holds the request and, in the end,*)
(* its answer; req[t].arrival records, for the properties only, what the     *)
(* store held when the request arrived and whether the handling of the       *)
(* request overlapped that of another.                                       *)

InFlight(t) == pc[t] \in {"validate_member", "validate_bicycle", "log"}

\* request.get_json(), int(...) of both ids
Receive(t, raw_member, raw_bicycle) ==
    LET m == int(raw_member)
        b == int(raw_bicycle)
        bad == IF ~m.ok THEN m.exc ELSE b.exc
        reply(success, text) == Answer("rent", raw_member, raw_bicycle, success, text)
        arrival ==
            [available |-> /\ b.ok
                           /\ b.v \in DOMAIN bicycles
                           /\ bicycles[b.v].STATUS = "Available",
             eligible |-> m.ok /\ Eligible(members, rental_transactions, m.v),
             overlaps |-> \E u \in Threads \ {t} : InFlight(u)]
    IN  /\ pc[t] = "idle"
        /\ IF m.ok /\ b.ok
           THEN /\ pc' = [pc EXCEPT ![t] = "validate_member"]
                /\ req' = [u \in Threads |->
                             IF u = t
                             THEN [answer |-> reply(FALSE, ""), arrival |-> arrival]
                             ELSE IF InFlight(u)
                             THEN [req[u] EXCEPT !.arrival.overlaps = TRUE]
                             ELSE req[u]]
           ELSE /\ pc' = [pc EXCEPT ![t] = "done"]
                /\ req' = [req EXCEPT ![t] =
                             [answer |-> reply(FALSE,
                                   IF bad = "ValueError"
                                   THEN "Invalid input. Please enter numeric values for Member ID and Bicycle ID."
                                   ELSE "An error occurred while processing the rental"),
                              arrival |-> NoArrival]]
        /\ UNCHANGED <<bicycles, members, rental_transactions, rental_fees, connection, last>>

ValidateMember(t) ==
    LET vm == validate_member(members, rental_transactions, connection, t,
                              req[t].answer.member_id.v)
    IN  /\ pc[t] = "validate_member"
        /\ connection' = vm.connection
        /\ IF vm.ok
           THEN /\ pc' = [pc EXCEPT ![t] = "validate_bicycle"]
                /\ req' = req
           ELSE /\ pc' = [pc EXCEPT ![t] = "done"]
                /\ req' = [req EXCEPT ![t].answer =
                             [@ EXCEPT !.text = vm.text, !.limit = vm.limit,
                                       !.current = vm.current]]
        /\ UNCHANGED <<bicycles, members, rental_transactions, rental_fees, last>>

ValidateBicycle(t) ==
    LET vb == validate_bicycle(bicycles, connection, t, req[t].answer.bicycle_id.v)
    IN  /\ pc[t] = "validate_bicycle"
        /\ connection' = vb.connection
        /\ IF vb.ok
           THEN /\ pc' = [pc EXCEPT ![t] = "log"]
                /\ req' = req
           ELSE /\ pc' = [pc EXCEPT ![t] = "done"]
                /\ req' = [req EXCEPT ![t].answer =
                             [@ EXCEPT !.text = vb.text, !.status = vb.status]]
        /\ UNCHANGED <<bicycles, members, rental_transactions, rental_fees, last>>

LogRental(t) ==
    LET logged == log_rental_transaction(members, rental_transactions, connection, t,
                                         req[t].answer.bicycle_id.v,
                                         req[t].answer.member_id.v,
                                         Today, calculate_expected_return_date(Today))
    IN  /\ pc[t] = "log"
        /\ rental_transactions' = logged.rental_transactions
        /\ connection' = logged.connection
        /\ pc' = [pc EXCEPT ![t] = "done"]
        /\ req' = [req EXCEPT ![t].answer =
                     [@ EXCEPT !.success = TRUE, !.text = "Rental confirmed"]]
        /\ UNCHANGED <<bicycles, members, rental_fees, last>>

\* the answer is sent; the thread serves the next request
Respond(t) ==
    /\ pc[t] = "done"
    /\ pc' = [pc EXCEPT ![t] = "idle"]
    /\ req' = [req EXCEPT ![t] = NoRequest]
    /\ UNCHANGED <<bicycles, members, rental_transactions, rental_fees, connection, last>>

ReceiveAny == \E t \in Threads, m \in RawMembers, b \in RawBicycles : Receive(t, m, b)

HandleAny ==
    \E t \in Threads : ValidateMember(t) \/ ValidateBicycle(t) \/ LogRental(t) \/ Respond(t)

NextConc == ReceiveAny \/ HandleAny

SpecConc == Init /\ [][NextConc]_vars

----------------------------------------------------------------------------
(* Construction of a further DatabaseManager on the same database file, as   *)
(* BikeRentSystem() does after the module's own db_manager exists and as     *)
(* every start of the application or of a script does.                       *)

\* DatabaseManager(): create_tables drops and recreates members, rental_fees
\* and rental_transactions (CREATE TABLE IF NOT EXISTS keeps bicycles), then
\* populate_sample_data fills the tables it finds empty; the new object has a
\* connection of its own, closed when the constructor returns
create_tables ==
    /\ last = NoAnswer
    /\ members' = sample_members
    /\ rental_transactions' = sample_transactions
    /\ rental_fees' = sample_fees
    /\ UNCHANGED <<bicycles, connection, last, pc, req>>

NextRestart == RentAny \/ ReturnAny \/ Deliver \/ create_tables

SpecRestart == Init /\ [][NextRestart]_vars

----------------------------------------------------------------------------
(* store_fees applied to transactions that have a fee row already and to     *)
(* transactions that have none, between the returns.                         *)

\* one transaction that is open and has no fee row, one that is closed and has
\* one
StoreTransactions == {1, 2}

\* late fee and damage fee
StoreAmounts == { <<0, 0>>, <<5, 15>> }

\* store_fees(cursor, transaction_id, late_fee, damage_fee) and commit()
StoreFees(transaction_id, late_fee, damage_fee) ==
    /\ last = NoAnswer
    /\ rental_fees' = store_fees(rental_fees, transaction_id, late_fee, damage_fee)
    /\ last' = [NoAnswer EXCEPT !.op = "store_fees", !.transaction_id = transaction_id,
                                !.late_fee = late_fee, !.damage_fee = damage_fee]
    /\ UNCHANGED <<bicycles, members, rental_transactions, connection, pc, req>>

StoreFeesAny ==
    \E t \in StoreTransactions, a \in StoreAmounts : StoreFees(t, a[1], a[2])

NextFees == ReturnAny \/ StoreFeesAny \/ Deliver

SpecFees == Init /\ [][NextFees]_vars

----------------------------------------------------------------------------
(* Vocabulary of the properties *)

\* the step that finishes an /api/rent request, a return_bike call
RentStep == last = NoAnswer /\ last'.op = "rent"

ReturnStep == last = NoAnswer /\ last'.op = "return"

\* both ids of the answer are numbers
NumericIds(answer) == answer.member_id.t = "int" /\ answer.bicycle_id.t = "int"

----------------------------------------------------------------------------
(* C1 - C10 *)

\* C1: in every reachable state, a bicycle's status is Rented if and only if
\* exactly one rental transaction of that bicycle has a null return date.
C1_RentedIffOneOpenTransaction ==
    \A b \in DOMAIN bicycles :
        (bicycles[b].STATUS = "Rented") <=> (OpenCountOfBicycle(rental_transactions, b) = 1)

\* C2: in every reachable state each bicycle id is referenced by at most one
\* rental transaction whose return date is null.
C2_AtMostOneOpenTransactionPerBicycle ==
    \A b \in RequestBikeIds : OpenCountOfBicycle(rental_transactions, b) <= 1

\* a rental was confirmed for a bicycle that an open transaction references
C2_Witness ==
    /\ last.op = "rent"
    /\ last.success
    /\ OpenCountOfBicycle(rental_transactions, last.bicycle_id.v) = 1

\* C3: every initiate_rental that reports a confirmed rental adds exactly one
\* rental transaction, for that bicycle and member, with rental_date = now and
\* a null return date, and writes no fee row.
C3_ConfirmedRentAddsOneOpenTransaction ==
    [][ (RentStep /\ last'.success) =>
            /\ Len(rental_transactions') = Len(rental_transactions) + 1
            /\ SubSeq(rental_transactions', 1, Len(rental_transactions)) = rental_transactions
            /\ rental_transactions'[Len(rental_transactions')] =
                   Tx(last'.bicycle_id.v, last'.member_id.v, Today, NULL)
            /\ rental_fees' = rental_fees ]_vars

\* C4: after a confirmed initiate_rental on bicycle b its status is Rented;
\* while it is Rented every initiate_rental on b by an eligible member is
\* rejected as not available; a successful complete_return on b makes its
\* status Available again.
C4_RentedUntilReturned ==
    [][ /\ (RentStep /\ last'.success /\ last'.bicycle_id.v \in DOMAIN bicycles') =>
                bicycles'[last'.bicycle_id.v].STATUS = "Rented"
        /\ ( /\ RentStep
             /\ NumericIds(last')
             /\ Eligible(members, rental_transactions, last'.member_id.v)
             /\ last'.bicycle_id.v \in DOMAIN bicycles
             /\ bicycles[last'.bicycle_id.v].STATUS = "Rented" ) =>
                (~last'.success /\ last'.text = "Bicycle is not available for rent.")
        /\ (ReturnStep /\ last'.success /\ last'.bicycle_id.v \in DOMAIN bicycles') =>
                bicycles'[last'.bicycle_id.v].STATUS = "Available" ]_vars

\* C5: when two initiate_rental calls on the same Available bicycle run
\* concurrently, their validation and write steps interleaved in any order,
\* exactly one of them is confirmed and the other is rejected as not available.
C5_ConcurrentRentsOneConfirmed ==
    \A t \in Threads : \A u \in Threads \ {t} :
        ( /\ pc[t] = "done" /\ pc[u] = "done"
          /\ NumericIds(req[t].answer) /\ NumericIds(req[u].answer)
          /\ req[t].answer.bicycle_id = req[u].answer.bicycle_id
          /\ req[t].arrival.available /\ req[u].arrival.available
          /\ req[t].arrival.eligible /\ req[u].arrival.eligible
          /\ req[t].arrival.overlaps /\ req[u].arrival.overlaps ) =>
            \/ /\ req[t].answer.success
               /\ ~req[u].answer.success
               /\ req[u].answer.text = "Bicycle is not available for rent."
            \/ /\ req[u].answer.success
               /\ ~req[t].answer.success
               /\ req[t].answer.text = "Bicycle is not available for rent."

C7_OnlyActiveMembersRent ==
    [][ /\ \A m \in RequestMemberIds :
               LET found == get_member_info(members, connection, 1, m).ret
                   active == m \in DOMAIN members /\ members[m].STATUS = "Active"
               IN  /\ (found # <<>>) <=> active
                   /\ active => found = <<members[m]>>
        /\ ( /\ RentStep
             /\ NumericIds(last')
             /\ ~( /\ last'.member_id.v \in DOMAIN members
                   /\ members[last'.member_id.v].STATUS = "Active" ) ) =>
                /\ ~last'.success
                /\ last'.text = "Invalid or inactive membership."
                /\ rental_transactions' = rental_transactions ]_vars

\* a rental was refused to a Suspended member, for a bicycle that is Available
C7_Witness ==
    /\ last.op = "rent"
    /\ last.text = "Invalid or inactive membership."
    /\ last.member_id.v \in DOMAIN members
    /\ members[last.member_id.v].STATUS = "Suspended"
    /\ last.bicycle_id.v \in DOMAIN bicycles
    /\ bicycles[last.bicycle_id.v].STATUS = "Available"

\* C8: an initiate_rental by an eligible member is rejected as not found when
\* no bicycle has the id, rejected as not available, with the current status,
\* when the bicycle's status is not Available, and a rental is confirmed only
\* for a bicycle whose status is Available.
C8_BicycleValidation ==
    [][ (RentStep /\ NumericIds(last')) =>
            LET b == last'.bicycle_id.v
                eligible == Eligible(members, rental_transactions, last'.member_id.v)
            IN  /\ (eligible /\ b \notin DOMAIN bicycles) =>
                        (~last'.success /\ last'.text = "Bicycle ID not found.")
                /\ (eligible /\ b \in DOMAIN bicycles /\ bicycles[b].STATUS # "Available") =>
                        /\ ~last'.success
                        /\ last'.text = "Bicycle is not available for rent."
                        /\ last'.status = bicycles[b].STATUS
                /\ last'.success =>
                        (b \in DOMAIN bicycles /\ bicycles[b].STATUS = "Available") ]_vars

\* a rental was refused because the bicycle is under maintenance
C8_Witness ==
    /\ last.op = "rent"
    /\ ~last.success
    /\ last.text = "Bicycle is not available for rent."
    /\ last.status = "Under Maintenance"

\* C9: every rejected initiate_rental leaves the bicycle, member, transaction
\* and fee records unchanged, and with them the member's open-rental count.
C9_RejectedRentChangesNothing ==
    [][ (RentStep /\ ~last'.success) =>
            /\ store' = store
            /\ \A m \in RequestMemberIds :
                   OpenCountOfMember(rental_transactions', m) =
                   OpenCountOfMember(rental_transactions, m) ]_vars

\* a rental by an eligible member was refused for an unknown bicycle id
C9_Witness ==
    /\ last.op = "rent"
    /\ ~last.success
    /\ last.text = "Bicycle ID not found."

----------------------------------------------------------------------------
(* C11 - C20 *)

\* a transaction of bicycle b and member m has a null return date
HasOpen(txs, b, m) ==
    \E i \in DOMAIN txs :
        txs[i].BICYCLE_ID = b /\ txs[i].MEMBER_ID = m /\ txs[i].RETURN_DATE = NULL

\* the fee rows of transaction t
FeesOf(fees, t) == { f \in fees : f.TRANSACTION_ID = t }

\* C11: when an open transaction matches but the caller does not confirm the
\* return, complete_return reports that the return was canceled and leaves the
\* transaction open, the bicycle's status and condition unchanged and no fee
\* row written.
C11_UnconfirmedReturnCanceled ==
    [][ ( /\ ReturnStep
          /\ NumericIds(last')
          /\ HasOpen(rental_transactions, last'.bicycle_id.v, last'.member_id.v)
          /\ ~last'.confirm ) =>
            /\ ~last'.success
            /\ last'.text = "Return canceled by user"
            /\ HasOpen(rental_transactions', last'.bicycle_id.v, last'.member_id.v)
            /\ store' = store ]_vars

\* a return was canceled and its transaction is still open
C11_Witness ==
    /\ last.op = "return"
    /\ last.text = "Return canceled by user"
    /\ ~last.confirm
    /\ rental_transactions[last.transaction_id].RETURN_DATE = NULL
    /\ FeesOf(rental_fees, last.transaction_id) = {}

C14_TransactionsNeverDeleted ==
    [][ \A i \in DOMAIN rental_transactions :
            /\ i \in DOMAIN rental_transactions'
            /\ rental_transactions'[i].BICYCLE_ID = rental_transactions[i].BICYCLE_ID
            /\ rental_transactions'[i].MEMBER_ID = rental_transactions[i].MEMBER_ID
            /\ rental_transactions'[i].RENTAL_DATE = rental_transactions[i].RENTAL_DATE
            /\ rental_transactions[i].RETURN_DATE # NULL =>
                   rental_transactions'[i].RETURN_DATE = rental_transactions[i].RETURN_DATE
      ]_vars

\* C15: for every return, with days_rented the whole number of days from the
\* transaction's rental date to now, the late fee written is
\* max(0, (days_rented - 7) * 10).
C15_LateFee ==
    [][ (ReturnStep /\ last'.success) =>
            LET t == last'.transaction_id
                days_rented == Today - rental_transactions[t].RENTAL_DATE
                due == IF days_rented > 7 THEN (days_rented - 7) * 10 ELSE 0
            IN  /\ last'.late_fee = due
                /\ \A f \in FeesOf(rental_fees', t) : f.LATE_FEE = due ]_vars

\* C16: every fee row has late_fee >= 0 and damage_fee >= 0; the damage fee a
\* return writes is 0 when no damage is reported and otherwise the amount the
\* caller supplied, a negative amount never being stored.
C16_FeesNotNegative ==
    [][ /\ \A f \in rental_fees \cup rental_fees' : f.LATE_FEE >= 0 /\ f.DAMAGE_FEE >= 0
        /\ (ReturnStep /\ last'.success) =>
               \A f \in FeesOf(rental_fees', last'.transaction_id) :
                   IF last'.damaged
                   THEN \E k \in DOMAIN last'.amounts :
                            /\ last'.amounts[k] >= 0
                            /\ \A j \in 1..(k - 1) : last'.amounts[j] < 0
                            /\ f.DAMAGE_FEE = last'.amounts[k]
                   ELSE f.DAMAGE_FEE = 0 ]_vars

\* a return was made with damage reported and a negative amount typed first:
\* the fee row has the amount typed after it
C16_Witness ==
    /\ last.op = "return"
    /\ last.success
    /\ last.damaged
    /\ Len(last.amounts) = 2
    /\ last.amounts[1] < 0
    /\ \E f \in rental_fees :
           f.TRANSACTION_ID = last.transaction_id /\ f.DAMAGE_FEE = last.amounts[2]

\* C17: there is at most one fee row per transaction id; storing fees for a
\* transaction that already has a fee row replaces that row instead of adding
\* a second one, and leaves the rows of the other transactions alone.
C17_OneFeeRowPerTransaction ==
    [][ /\ \A f \in rental_fees' : FeesOf(rental_fees', f.TRANSACTION_ID) = {f}
        /\ \A f \in rental_fees : FeesOf(rental_fees, f.TRANSACTION_ID) = {f}
        /\ (last = NoAnswer /\ last'.op = "store_fees") =>
               LET t == last'.transaction_id
               IN  /\ FeesOf(rental_fees', t) = { Fee(t, last'.late_fee, last'.damage_fee) }
                   /\ rental_fees' \ FeesOf(rental_fees', t) =
                          rental_fees \ FeesOf(rental_fees, t)
        /\ (ReturnStep /\ last'.success) =>
               Cardinality(FeesOf(rental_fees', last'.transaction_id)) = 1 ]_vars

\* fees were stored for a transaction that had a fee row with other amounts
C17_Witness ==
    /\ last.op = "store_fees"
    /\ last.transaction_id = 2
    /\ last.late_fee = 5
    /\ last.damage_fee = 15
    /\ FeesOf(rental_fees, 2) = { Fee(2, 5, 15) }
    /\ Cardinality(rental_fees) = Cardinality(sample_fees)

\* C18: in every reachable state every fee row refers to a transaction that is
\* in the store and has a non-null return date.
C18_FeesOfClosedTransactions ==
    \A f \in rental_fees :
        /\ f.TRANSACTION_ID \in DOMAIN rental_transactions
        /\ rental_transactions[f.TRANSACTION_ID].RETURN_DATE # NULL

\* a return has written the fee row of the transaction it closed, and another
\* transaction is open, without a fee row
C18_Witness ==
    /\ last.op = "return"
    /\ last.success
    /\ FeesOf(rental_fees, last.transaction_id) # {}
    /\ rental_transactions[last.transaction_id].RETURN_DATE = Today
    /\ \E i \in DOMAIN rental_transactions :
           rental_transactions[i].RETURN_DATE = NULL /\ FeesOf(rental_fees, i) = {}

\* C19: a confirmed complete_return on an open transaction succeeds for each of
\* the new-condition values New, Good, Fair and Damaged, and after it the
\* bicycle has status Available and the condition supplied.
C19_ReturnSetsCondition ==
    [][ ( /\ ReturnStep
          /\ NumericIds(last')
          /\ HasOpen(rental_transactions, last'.bicycle_id.v, last'.member_id.v)
          /\ last'.confirm
          /\ last'.condition \in ReturnConditions ) =>
            /\ last'.success
            /\ last'.bicycle_id.v \in DOMAIN bicycles' =>
                   bicycles'[last'.bicycle_id.v] =
                       [STATUS |-> "Available", CONDITION |-> last'.condition] ]_vars

\* C20: when a step of complete_return after the return date is set fails,
\* none of its writes is persisted: the transaction is still open, no fee row
\* was added or replaced, and the bicycle's status and condition are as before.
C20_FailedReturnRolledBack ==
    [][ (ReturnStep /\ last'.confirm /\ ~last'.success) =>
            /\ rental_transactions' = rental_transactions
            /\ rental_transactions'[last'.transaction_id].RETURN_DATE = NULL
            /\ rental_fees' = rental_fees
            /\ bicycles' = bicycles ]_vars

\* a confirmed return failed at the update of the bicycle, after the return
\* date and the fee row were written: the transaction is open and has no fee row
C20_Witness ==
    /\ last.op = "return"
    /\ last.confirm
    /\ ~last.success
    /\ last.text = "Error during return"
    /\ last.damaged
    /\ rental_transactions[last.transaction_id].RETURN_DATE = NULL
    /\ FeesOf(rental_fees, last.transaction_id) = {}

-----------------------------------------------------------------------------
(* BicycleSearch and the /api/search route                                   *)
(*                                                                           *)
(* The bicycles table also carries BRAND, TYPE and RENTAL_RATE; no operation *)
(* writes them, so they are a fixed catalogue beside STATUS and CONDITION.   *)

catalogue(bicycle_id) ==
    IF bicycle_id % 2 = 1
    THEN [BRAND |-> "Trek", TYPE |-> "Road Bike", RENTAL_RATE |-> "10/day"]
    ELSE [BRAND |-> "Giant", TYPE |-> "Mountain Bike", RENTAL_RATE |-> "20/day"]

\* the row SELECT * yields for a bicycle
bicycle_row(bikes, bicycle_id) ==
    [ID |-> bicycle_id,
     BRAND |-> catalogue(bicycle_id).BRAND,
     TYPE |-> catalogue(bicycle_id).TYPE,
     RENTAL_RATE |-> catalogue(bicycle_id).RENTAL_RATE,
     CONDITION |-> bikes[bicycle_id].CONDITION,
     STATUS |-> bikes[bicycle_id].STATUS]

\* LOWER() / str.lower() on the texts of the catalogue and of the filters
LOWER(text) ==
    CASE text = "Trek" -> "trek"
      [] text = "Giant" -> "giant"
      [] text = "Road Bike" -> "road bike"
      [] text = "Mountain Bike" -> "mountain bike"
      [] text = "Road" -> "road"
      [] text = "New" -> "new"
      [] text = "Good" -> "good"
      [] text = "Damaged" -> "damaged"
      [] text = "Dam" -> "dam"
      [] OTHER -> lower(text)

\* the lower-case texts that occur inside a lower-case text
infixes(text) ==
    {text, ""} \cup
    CASE text = "trek" -> {"tre", "rek"}
      [] text = "giant" -> {"gia", "ant"}
      [] text = "road bike" -> {"road", "bike"}
      [] text = "mountain bike" -> {"mountain", "bike"}
      [] text = "damaged" -> {"dam", "damage"}
      [] text = "good" -> {"goo"}
      [] OTHER -> {}

\* LOWER(column) LIKE LOWER('%part%'), and part.lower() in column.lower()
LIKE(column, part) == LOWER(part) \in infixes(LOWER(column))

\* CAST(SUBSTR(RENTAL_RATE, 1, INSTR(RENTAL_RATE, '/') - 1) AS INTEGER), and
\* int(RENTAL_RATE.split('/')[0]) on a rate of the form <number>/<unit>
rate_of(rental_rate) ==
    CASE rental_rate = "10/day" -> 10
      [] rental_rate = "20/day" -> 20
      [] OTHER -> 0

\* list_all_bicycles: SELECT * FROM bicycles ORDER BY ID; a row is named by
\* its ID
list_all_bicycles(bikes) == [i \in 1..Len(bikes) |-> i]

\* suggest_similar_bicycles: WHERE status [AND brand] [OR type] [OR condition];
\* AND binds tighter than OR
suggest_similar_bicycles(bikes, brand, bike_type, status, condition) ==
    LET where(b) ==
            LET row == bicycle_row(bikes, b)
            IN  \/ /\ LOWER(row.STATUS) = LOWER(status)
                   /\ (brand # "" => LIKE(row.BRAND, brand))
                \/ (bike_type # "" /\ LIKE(row.TYPE, bike_type))
                \/ (condition # "" /\ LIKE(row.CONDITION, condition))
    IN  SelectSeq(list_all_bicycles(bikes), where)

\* search_bicycles: the rows it displays as exact matches and, when there are
\* none, the rows it displays as similar bicycles
search_bicycles(bikes, brand, bike_type, status, condition, min_rate, max_rate) ==
    LET where(b) ==
            LET row == bicycle_row(bikes, b)
            IN  /\ LOWER(row.STATUS) = LOWER(status)
                /\ (brand # "" => LIKE(row.BRAND, brand))
                /\ (bike_type # "" => LIKE(row.TYPE, bike_type))
                /\ (condition # "" => LIKE(row.CONDITION, condition))
                /\ (min_rate # <<>> => rate_of(row.RENTAL_RATE) >= min_rate[1])
                /\ (max_rate # <<>> => rate_of(row.RENTAL_RATE) <= max_rate[1])
        results == SelectSeq(list_all_bicycles(bikes), where)
    IN  [exact |-> results,
         similar |-> IF results # <<>> THEN <<>>
                     ELSE suggest_similar_bicycles(bikes, brand, bike_type, status, condition)]

\* the /api/search route: it runs search_bicycles, then answers with
\* list_all_bicycles filtered by brand, type, condition and rates
api_search(bikes, brand, bike_type, status, condition, min_rate, max_rate) ==
    LET keep(b) ==
            LET bike == bicycle_row(bikes, b)
            IN  /\ ~(brand # "" /\ ~LIKE(bike.BRAND, brand))
                /\ ~(bike_type # "" /\ ~LIKE(bike.TYPE, bike_type))
                /\ ~(condition # "" /\ LOWER(bike.CONDITION) # LOWER(condition))
                /\ ~(min_rate # <<>> /\ rate_of(bike.RENTAL_RATE) < min_rate[1])
                /\ ~(max_rate # <<>> /\ rate_of(bike.RENTAL_RATE) > max_rate[1])
    IN  SelectSeq(list_all_bicycles(bikes), keep)

\* the criteria a search is asked with; "" and <<>> stand for a criterion left out
SearchBrands == {"", "trek"}
SearchTypes == {"", "Road"}
SearchStatuses == {"Available", "available", "rented"}
SearchConditions == {"", "good", "Dam"}
SearchRates == {<<>>, <<15>>}

Criteria(brand, bike_type, status, condition, min_rate, max_rate) ==
    [brand |-> brand, bike_type |-> bike_type, status |-> status,
     condition |-> condition, min_rate |-> min_rate, max_rate |-> max_rate]

\* one run of BicycleSearch.search_bicycles
Search(brand, bike_type, status, condition, min_rate, max_rate) ==
    LET r == search_bicycles(bicycles, brand, bike_type, status, condition, min_rate, max_rate)
    IN  /\ last = NoAnswer
        /\ last' = [op |-> "search",
                    criteria |-> Criteria(brand, bike_type, status, condition, min_rate, max_rate),
                    exact |-> r.exact, similar |-> r.similar, bicycles |-> <<>>]
        /\ connection' = close(connect(connection, 1))
        /\ UNCHANGED <<bicycles, members, rental_transactions, rental_fees, pc, req>>

\* one request to /api/search
ApiSearch(brand, bike_type, status, condition, min_rate, max_rate) ==
    LET r == search_bicycles(bicycles, brand, bike_type, status, condition, min_rate, max_rate)
    IN  /\ last = NoAnswer
        /\ last' = [op |-> "api_search",
                    criteria |-> Criteria(brand, bike_type, status, condition, min_rate, max_rate),
                    exact |-> r.exact, similar |-> r.similar,
                    bicycles |-> api_search(bicycles, brand, bike_type, status, condition,
                                            min_rate, max_rate)]
        /\ connection' = close(connect(close(connect(connection, 1)), 1))
        /\ UNCHANGED <<bicycles, members, rental_transactions, rental_fees, pc, req>>

SearchAny ==
    \E brand \in SearchBrands, bike_type \in SearchTypes, status \in SearchStatuses,
       condition \in SearchConditions, min_rate \in SearchRates, max_rate \in SearchRates :
        Search(brand, bike_type, status, condition, min_rate, max_rate)

ApiSearchAny ==
    \E brand \in SearchBrands, bike_type \in SearchTypes, status \in SearchStatuses,
       condition \in SearchConditions, min_rate \in SearchRates, max_rate \in SearchRates :
        ApiSearch(brand, bike_type, status, condition, min_rate, max_rate)

NextSearch == ReturnAny \/ SearchAny \/ ApiSearchAny \/ Deliver

SpecSearch == Init /\ [][NextSearch]_vars

-----------------------------------------------------------------------------
(* Concurrent operations on one DatabaseManager: return_system and           *)
(* search_manager are built on the module-level db_manager, so the returns   *)
(* two threads run share its connection attribute.  A thread may be          *)
(* preempted after its connect() and before its close().  sqlite3 lets only  *)
(* the thread that created a connection use or close it: in any other thread *)
(* cursor(), rollback() and close() raise ProgrammingError.                  *)

\* close() called by a thread: a connection another thread created raises in
\* connection.close(), before the attribute is cleared
close_from(conn, thread) ==
    IF conn = None THEN [raised |-> FALSE, connection |-> None]
    ELSE IF conn = thread THEN [raised |-> FALSE, connection |-> close(conn)]
    ELSE [raised |-> TRUE, connection |-> conn]

AttributeErrorText == "Error during return: 'NoneType' object has no attribute 'cursor'"
ProgrammingErrorText == "SQLite objects created in a thread can only be used in that same thread"

\* return_bike, line 15: self.db_manager.connect()
ReturnConnect(t, raw_bicycle, raw_member) ==
    /\ pc[t] = "idle"
    /\ connection' = connect(connection, t)
    /\ pc' = [pc EXCEPT ![t] = "connected"]
    /\ req' = [req EXCEPT ![t] =
                 [answer |-> Answer("return", raw_member, raw_bicycle, FALSE, ""),
                  arrival |-> NoArrival]]
    /\ UNCHANGED <<bicycles, members, rental_transactions, rental_fees, last>>

\* return_bike, lines 16 - 63: the body between connect() and close(), on the
\* connection the manager holds when the thread goes on
ReturnBody(t, prompts) ==
    LET raw_bicycle == req[t].answer.bicycle_id
        raw_member == req[t].answer.member_id
        r == return_bike(bicycles, rental_transactions, rental_fees, connection, t,
                         raw_bicycle, raw_member, prompts, Today)
    IN  /\ pc[t] = "connected"
        /\ pc' = [pc EXCEPT ![t] = "closing"]
        /\ IF connection = t
           THEN /\ bicycles' = r.bicycles
                /\ rental_transactions' = r.rental_transactions
                /\ rental_fees' = r.rental_fees
                /\ req' = [req EXCEPT ![t].answer = r.answer]
           ELSE /\ req' = [req EXCEPT ![t].answer =
                             [@ EXCEPT !.text = IF connection = None
                                                THEN AttributeErrorText
                                                ELSE ProgrammingErrorText]]
                /\ UNCHANGED <<bicycles, rental_transactions, rental_fees>>
        /\ UNCHANGED <<members, connection, last>>

\* return_bike, line 65: finally self.db_manager.close()
ReturnClose(t) ==
    /\ pc[t] = "closing"
    /\ connection' = close_from(connection, t).connection
    /\ pc' = [pc EXCEPT ![t] = "done"]
    /\ UNCHANGED <<bicycles, members, rental_transactions, rental_fees, last, req>>

\* the thread is between its connect() and its close()
Connected(t) == pc[t] \in {"connected", "closing"}

\* the concurrent returns name bicycles of the inventory and the members of
\* the first two sample rentals, and report no damage
SharedBicycles == { PyInt(b) : b \in BikeIds }

SharedMembers == { PyInt(sample_transactions[i].MEMBER_ID) : i \in {1, 2} }

SharedPrompts(t) ==
    IF connection = t
    THEN { p \in PromptsFor(req[t].answer.bicycle_id, req[t].answer.member_id) : ~p.damaged }
    ELSE { p \in Prompts : ~p.confirm }

ReturnConnectAny ==
    \E t \in Threads, b \in SharedBicycles, m \in SharedMembers : ReturnConnect(t, b, m)

ReturnBodyAny == \E t \in Threads : \E p \in SharedPrompts(t) : ReturnBody(t, p)

ReturnCloseAny == \E t \in Threads : ReturnClose(t)

RespondAny == \E t \in Threads : Respond(t)

NextShared == ReturnConnectAny \/ ReturnBodyAny \/ ReturnCloseAny \/ RespondAny

SpecShared == Init /\ [][NextShared]_vars

----------------------------------------------------------------------------
(* C21 - C30 *)

\* the connection log_rental_transaction holds when it reaches its INSERT:
\* the one it opened, after get_member_info has run on it
ConnectionAtInsert(mems, conn, thread, member_id) ==
    get_member_info(mems, connect(conn, thread), thread, member_id).connection

\* the rent reaches log_rental_transaction: both ids are numbers, the member
\* is eligible and the bicycle is Available
ReachesLog(answer) ==
    /\ NumericIds(answer)
    /\ Eligible(members, rental_transactions, answer.member_id.v)
    /\ answer.bicycle_id.v \in DOMAIN bicycles
    /\ bicycles[answer.bicycle_id.v].STATUS = "Available"

\* C21: when a store access fails during initiate_rental (here the INSERT of
\* the transaction, attempted on a connection that is None), the caller
\* receives a failure, never a rental confirmation, and nothing is persisted.
C21_StoreFailureReported ==
    [][ ( /\ RentStep
          /\ ReachesLog(last')
          /\ ConnectionAtInsert(members, connection, 1, last'.member_id.v) = None ) =>
            /\ ~last'.success
            /\ store' = store ]_vars

\* C22: for an eligible member m and an Available bicycle b, a confirmed
\* initiate_rental(m, b) followed immediately by complete_return(b, m,
\* confirmed, no damage, condition Good) succeeds and leaves b Available and
\* Good, exactly one transaction of (b, m), created by the rental and now
\* closed, and exactly one fee row for it, with damage fee 0.
C22_RentThenReturn ==
    [][ (RentStep /\ last'.success) =>
            LET b == last'.bicycle_id.v
                m == last'.member_id.v
                back == return_bike(bicycles', rental_transactions', rental_fees',
                                    connection', 1, last'.bicycle_id, last'.member_id,
                                    [confirm |-> TRUE, damaged |-> FALSE,
                                     amounts |-> <<>>, condition |-> "Good"],
                                    Today)
                created == { i \in DOMAIN back.rental_transactions :
                                /\ i \notin DOMAIN rental_transactions
                                /\ back.rental_transactions[i].BICYCLE_ID = b
                                /\ back.rental_transactions[i].MEMBER_ID = m }
            IN  /\ back.answer.success
                /\ back.bicycles[b] = [STATUS |-> "Available", CONDITION |-> "Good"]
                /\ Cardinality(created) = 1
                /\ \A i \in created :
                       /\ back.rental_transactions[i].RETURN_DATE = Today
                       /\ Cardinality(FeesOf(back.rental_fees, i)) = 1
                       /\ \A f \in FeesOf(back.rental_fees, i) : f.DAMAGE_FEE = 0 ]_vars

C24_OpenCountFollowsRentals ==
    [][ /\ (RentStep /\ last'.success) =>
               OpenCountOfMember(rental_transactions', last'.member_id.v) =
               OpenCountOfMember(rental_transactions, last'.member_id.v) + 1
        /\ (ReturnStep /\ last'.success) =>
               OpenCountOfMember(rental_transactions', last'.member_id.v) =
               OpenCountOfMember(rental_transactions, last'.member_id.v) - 1 ]_vars

\* C25: within log_rental_transaction the connection opened at its start is
\* still open when the INSERT is executed: get_member_info, called in between,
\* does not close it.
C25_ConnectionOpenAtInsert ==
    [][ (RentStep /\ ReachesLog(last')) =>
            ConnectionAtInsert(members, connection, 1, last'.member_id.v) # None ]_vars

\* C26: initiate_rental and complete_return never change the status of a
\* bicycle that is Under Maintenance and never put a bicycle into it: the only
\* status changes they make are Available to Rented, in a rent of that
\* bicycle, and Rented to Available, in a return of it.
C26_StatusChanges ==
    [][ \A b \in DOMAIN bicycles :
            bicycles'[b].STATUS # bicycles[b].STATUS =>
                \/ /\ RentStep
                   /\ last'.bicycle_id.v = b
                   /\ bicycles[b].STATUS = "Available"
                   /\ bicycles'[b].STATUS = "Rented"
                \/ /\ ReturnStep
                   /\ last'.bicycle_id.v = b
                   /\ bicycles[b].STATUS = "Rented"
                   /\ bicycles'[b].STATUS = "Available" ]_vars

Satisfies(row, criteria) ==
    /\ LOWER(row.STATUS) = LOWER(criteria.status)
    /\ (criteria.brand # "" => LIKE(row.BRAND, criteria.brand))
    /\ (criteria.bike_type # "" => LIKE(row.TYPE, criteria.bike_type))
    /\ (criteria.condition # "" => LIKE(row.CONDITION, criteria.condition))
    /\ (criteria.min_rate # <<>> => rate_of(row.RENTAL_RATE) >= criteria.min_rate[1])
    /\ (criteria.max_rate # <<>> => rate_of(row.RENTAL_RATE) <= criteria.max_rate[1])

\* C28: every bicycle a search gives back -- as an exact match, as a similar
\* bicycle, or in the list of the web search API -- has the status asked for,
\* compared without regard to case, and satisfies every other criterion
\* supplied (brand, type, condition, minimum and maximum rate)
C28_SearchResultsSatisfyFilters ==
    last.op \in {"search", "api_search"} =>
        \A b \in Range(last.exact) \cup Range(last.similar) \cup Range(last.bicycles) :
            Satisfies(bicycle_row(bicycles, b), last.criteria)

\* C29: while a thread is between its connect() and its close() on the shared
\* DatabaseManager, the close() of another operation has not closed or cleared
\* the connection
C29_ConnectionHeldUntilOwnClose ==
    \A t \in Threads : Connected(t) => connection # None

\* C30: in every reachable state, the states reached by interleaving rentals
\* of one member for different Available bicycles included, the number of open
\* transactions of each member is at most that member's rental limit
C30_OpenCountWithinLimit ==
    \A m \in DOMAIN members :
        OpenCountOfMember(rental_transactions, m) <= members[m].RENTAL_LIMIT

\* two overlapping rentals of one member for different bicycles, both Available
\* when asked for, have both been confirmed
C30_Witness ==
    \E t \in Threads : \E u \in Threads \ {t} :
        /\ pc[t] = "done" /\ pc[u] = "done"
        /\ req[t].answer.success /\ req[u].answer.success
        /\ req[t].answer.member_id = req[u].answer.member_id
        /\ req[t].answer.bicycle_id # req[u].answer.bicycle_id
        /\ req[t].arrival.available /\ req[u].arrival.available
        /\ req[t].arrival.overlaps /\ req[u].arrival.overlaps

====
